---- MODULE Spec2Model ----
(***************************************************************************)
(* HttpClient (src/httpclient.cpp): a wrapper around QNetworkAccessManager *)
(* with asynchronous entry points (get, post, put, patch, del: completion  *)
(* is reported by the signals success / error) and synchronous ones        *)
(* (the _sync ones: a nested QEventLoop waits, the body is returned        *)
(* or a NetworkException is thrown).                                       *)
(*                                                                         *)
(* Execution is single threaded.  `stack` is the call stack of the GUI     *)
(* thread above the main event loop: "code" frames are slots that are      *)
(* running (an application slot, or a slot connected to success / error    *)
(* that emit has called), "wait" frames are QEventLoop::exec() calls made  *)
(* by waitForResponse.  An event loop delivers events exactly when the     *)
(* stack is empty (the main loop) or its top is a wait frame.  emit calls  *)
(* the connected slots one after another, in connection order, before      *)
(* onReplyFinished returns.                                                *)
(*                                                                         *)
(* `trust` is the list of CA certificates of the default SSL configuration *)
(* that setRootCA extends.                                                 *)
(*                                                                         *)
(* URLs and request bodies are handed to the transport unchanged and are   *)
(* not part of the state; the destructor, QCoreApplication::quit, Qt's     *)
(* loading of system root certificates on demand, writeFile and            *)
(* imageFromBytes are not modelled.                                        *)
(***************************************************************************)
EXTENDS Integers, Sequences, FiniteSets, TLC

\* ---------------------------------------------------------------- bounds
MaxOps == 3        \* replies created in one run
MaxFewOps == 1     \* replies created in one run when every input is enumerated
MaxConfigOps == 2  \* replies created in one run while the configuration changes, or under fairness
MaxDepth == 4      \* frames pushed by application slots and sync calls
MaxFewDepth == 2   \* the same when every input is enumerated
MaxObsDepth == 3   \* the same when several slots observe the signals
MaxBodyLen == 1    \* bytes of a response body
MaxCerts == 2      \* certificates added to the trust store in one run

\* ------------------------------------------------------------ value sets
Clients == {"c1", "c2"}
NoClient == [made |-> FALSE, headers |-> <<>>]
Tokens == {"", "abc", "xyz"}

\* A response byte: "a" is an ASCII byte, "x80" a byte that is no valid UTF-8.
Bytes == {"a", "x80"}
RECURSIVE SeqsUpTo(_, _)
SeqsUpTo(S, n) ==
    IF n = 0 THEN {<<>>}
    ELSE LET shorter == SeqsUpTo(S, n - 1)
         IN shorter \cup {Append(s, x) : s \in {t \in shorter : Len(t) = n - 1}, x \in S}
Bodies == SeqsUpTo(Bytes, MaxBodyLen)

\* QNetworkRequest::HttpStatusCodeAttribute of a finished reply: absent when no
\* HTTP response was received, otherwise the status of the response.
\* The attribute is a QVariant: invalid when absent.
NoStatus == [valid |-> FALSE, value |-> 0]
HttpStatuses == {200, 300, 301}
StatusAttrs == {NoStatus} \cup {[valid |-> TRUE, value |-> s] : s \in HttpStatuses}

\* What the transport reports for a finished reply.
Outcomes == [err : BOOLEAN, attr : StatusAttrs, body : Bodies]

\* --------------------------------------------------------- header values
HeaderNames == {"Authorization", "X-Id", "authorization", "x-id"}
HeaderValues == {"v1", "v2"}
\* QMap<QString, QString> iterates its keys in ascending order (code units).
KeyOrder == <<"Authorization", "X-Id", "authorization", "x-id">>
\* Header names are compared case-insensitively by QNetworkRequest.
FoldCase(name) ==
    CASE name = "Authorization" -> "authorization"
      [] name = "X-Id" -> "x-id"
      [] OTHER -> name
SameHeader(a, b) == FoldCase(a) = FoldCase(b)

HeaderMaps == UNION {[D -> HeaderValues] : D \in SUBSET HeaderNames}
EmptyMap == <<>>

\* QNetworkRequest::setRawHeader: every header of that name (whatever its
\* case) is removed and the new pair is appended.
setRawHeader(raw, name, value) ==
    SelectSeq(raw, LAMBDA p : ~SameHeader(p[1], name)) \o <<(<<name, value>>)>>

RECURSIVE ApplyDefaults(_, _, _)
ApplyDefaults(raw, headers, i) ==
    IF i > Len(KeyOrder) THEN raw
    ELSE LET key == KeyOrder[i]
         IN IF key \in DOMAIN headers
            THEN ApplyDefaults(setRawHeader(raw, key, headers[key]), headers, i + 1)
            ELSE ApplyDefaults(raw, headers, i + 1)

\* Faulty variant of setHeaders: an Authorization header of the instance is kept
\* instead of being overwritten by the token.
setHeaders_noOverwrite(headers, tok) ==
    LET raw == ApplyDefaults(<<>>, headers, 1)
    IN IF tok # "" /\ ~\E i \in 1..Len(raw) : SameHeader(raw[i][1], "Authorization")
       THEN setRawHeader(raw, "Authorization", "Bearer " \o tok)
       ELSE raw

\* Faulty variant of setHeaders: the Authorization header is set even when the
\* token is empty.
setHeaders_always(headers, tok) ==
    setRawHeader(ApplyDefaults(<<>>, headers, 1), "Authorization", "Bearer " \o tok)

\* HttpClient::setHeaders: the raw headers of the request built from the
\* instance's default headers and the static token.
setHeaders(headers, tok) ==
    LET raw == ApplyDefaults(<<>>, headers, 1)
    IN IF tok # ""
       THEN setRawHeader(raw, "Authorization", "Bearer " \o tok)
       ELSE raw


\* ----------------------------------------------------------- conversions
\* QVariant::toInt() of the status attribute: an absent (invalid) attribute is 0.
toInt(attr) == IF attr.valid THEN attr.value ELSE 0

\* QString(const QByteArray&): the bytes are decoded as UTF-8; a byte that is
\* no valid UTF-8 becomes the replacement character U+FFFD.
fromUtf8(bytes) ==
    [i \in 1..Len(bytes) |-> IF bytes[i] = "x80" THEN "uFFFD" ELSE bytes[i]]

\* QString::toStdString(): the characters encoded as UTF-8 (U+FFFD is EF BF BD).
RECURSIVE toStdString(_)
toStdString(str) ==
    IF str = <<>> THEN <<>>
    ELSE (IF Head(str) = "uFFFD" THEN <<"xEF", "xBF", "xBD">> ELSE <<Head(str)>>)
         \o toStdString(Tail(str))

\* ---------------------------------------------------------------- state
VARIABLES
    token,     \* HttpClient::token, the static bearer token
    clients,   \* client -> whether it is constructed, and its default headers
    ops,       \* the QNetworkReply objects created so far, in creation order
    stack,     \* frames above the main event loop, bottom first
    events,    \* success / error signals emitted so far, in order
    lastSet,   \* history: the argument of the last setBearerToken call
    slots,     \* the slots connected to success and error, in connection order
    seen,      \* history: the calls of those slots made by emit, in order
    trust,     \* the CA certificates of QSslConfiguration::defaultConfiguration()
    lastCA     \* history: the last setRootCA call and how it ended
vars == <<token, clients, ops, stack, events, lastSet, slots, seen, trust, lastCA>>

OpIds == 1..Len(ops)

\* A running slot: observer number s of the signal emitted for reply o, or a
\* slot of the application's own (o = 0, s = 0).
CodeFrame(o, s) == [k |-> "code", op |-> o, slot |-> s]
WaitFrame(o) == [k |-> "wait", op |-> o, quit |-> FALSE]
Top == stack[Len(stack)]
Pop == SubSeq(stack, 1, Len(stack) - 1)
\* Some slot is executing: calls can be made.
CodeRunning == IF stack = <<>> THEN FALSE ELSE Top.k = "code"
\* An event loop is dispatching: the main loop, or the innermost nested one.
LoopRunning == IF stack = <<>> THEN TRUE ELSE Top.k = "wait"
\* The emissions in progress among the frames st: each is inside a slot.
Emitting(st) == SelectSeq(st, LAMBDA f : f.k = "code" /\ f.op # 0)

\* ------------------------------------------------- completion processing
\* Faulty variant of onReplyFinished: the return after emit error is missing.
onReplyFinished_noReturn(reply) ==
    LET requestFailed == reply.err
        responseData  == reply.body
        statusCode    == toInt(reply.attr)
    IN [deleteLater |-> 1,
        signals |-> (IF requestFailed \/ statusCode > 300
                     THEN <<[sig |-> "error", data |-> fromUtf8(responseData)]>>
                     ELSE <<>>)
                    \o <<[sig |-> "success", data |-> responseData]>>]

\* Faulty variant of onReplyFinished: status 300 counts as a failure.
onReplyFinished_ge300(reply) ==
    LET requestFailed == reply.err
        responseData  == reply.body
        statusCode    == toInt(reply.attr)
    IN [deleteLater |-> 1,
        signals |-> IF requestFailed \/ statusCode >= 300
                    THEN <<[sig |-> "error", data |-> fromUtf8(responseData)]>>
                    ELSE <<[sig |-> "success", data |-> responseData]>>]

\* Faulty variant of onReplyFinished: deleteLater is called on success only.
onReplyFinished_leakOnError(reply) ==
    LET requestFailed == reply.err
        responseData  == reply.body
        statusCode    == toInt(reply.attr)
    IN IF requestFailed \/ statusCode > 300
       THEN [deleteLater |-> 0,
             signals |-> <<[sig |-> "error", data |-> fromUtf8(responseData)]>>]
       ELSE [deleteLater |-> 1,
             signals |-> <<[sig |-> "success", data |-> responseData]>>]

\* Faulty variant of onReplyFinished: the error signal carries no data.
onReplyFinished_emptyErrorData(reply) ==
    LET requestFailed == reply.err
        responseData  == reply.body
        statusCode    == toInt(reply.attr)
    IN [deleteLater |-> 1,
        signals |-> IF requestFailed \/ statusCode > 300
                    THEN <<[sig |-> "error", data |-> <<>>]>>
                    ELSE <<[sig |-> "success", data |-> responseData]>>]

\* Faulty variant of onReplyFinished: a failure emits nothing.
onReplyFinished_dropError(reply) ==
    LET requestFailed == reply.err
        responseData  == reply.body
        statusCode    == toInt(reply.attr)
    IN [deleteLater |-> 1,
        signals |-> IF requestFailed \/ statusCode > 300
                    THEN <<>>
                    ELSE <<[sig |-> "success", data |-> responseData]>>]

\* HttpClient::onReplyFinished for the reply that sent finished(): how often it
\* calls deleteLater() and the signals it emits, in order.
onReplyFinished(reply) ==
    LET requestFailed == reply.err
        responseData  == reply.body
        statusCode    == toInt(reply.attr)
    IN [deleteLater |-> 1,
        signals |-> IF requestFailed \/ statusCode > 300
                    THEN <<[sig |-> "error", data |-> fromUtf8(responseData)]>>
                    ELSE <<[sig |-> "success", data |-> responseData]>>]

\* Faulty variant of waitForResponse: the exception always reports status 0.
waitForResponse_statusZero(reply) ==
    LET requestFailed == reply.err
        responseData  == reply.body
        statusCode    == toInt(reply.attr)
    IN [deleteLater |-> 1,
        result |-> IF requestFailed \/ statusCode > 300
                   THEN [kind |-> "throw", statusCode |-> 0,
                         message |-> toStdString(fromUtf8(responseData))]
                   ELSE [kind |-> "return", data |-> responseData]]

\* Faulty variant of waitForResponse: the status is not looked at.
waitForResponse_errorOnly(reply) ==
    LET requestFailed == reply.err
        responseData  == reply.body
        statusCode    == toInt(reply.attr)
    IN [deleteLater |-> 1,
        result |-> IF requestFailed
                   THEN [kind |-> "throw", statusCode |-> statusCode,
                         message |-> toStdString(fromUtf8(responseData))]
                   ELSE [kind |-> "return", data |-> responseData]]

\* HttpClient::waitForResponse after loop.exec() has returned: how often it
\* calls deleteLater() and what the caller gets (a return value or a thrown
\* NetworkException(statusCode, message)).
waitForResponse(reply) ==
    LET requestFailed == reply.err
        responseData  == reply.body
        statusCode    == toInt(reply.attr)
    IN [deleteLater |-> 1,
        result |-> IF requestFailed \/ statusCode > 300
                   THEN [kind |-> "throw", statusCode |-> statusCode,
                         message |-> toStdString(fromUtf8(responseData))]
                   ELSE [kind |-> "return", data |-> responseData]]

\* What onReplyFinished does with the reply, in order (lines 86 to 96).
onReplyFinishedOrder == <<"error", "readAll", "attribute", "deleteLater", "emit">>

\* What waitForResponse does with the reply after loop.exec(), in order
\* (lines 159 to 169).
waitForResponseOrder == <<"error", "readAll", "attribute", "deleteLater", "result">>

\* ------------------------------------------------------------ operations
\* The QNetworkReply returned by the manager for a request whose headers were
\* set by setHeaders.  History fields: `path` (an async or a sync entry point
\* created it), `tok` and `asked` (the static token and the last argument of
\* setBearerToken at that moment), `del` (who called deleteLater on it) and
\* `res` (what the sync call returned or threw), `log` (what was done with the
\* reply object, in order).
NewReply(path, c) ==
    [path |-> path, client |-> c,
     hdrs |-> setHeaders(clients[c].headers, token),
     tok |-> token, asked |-> lastSet,
     fin |-> FALSE, err |-> FALSE, attr |-> NoStatus, body |-> <<>>,
     del |-> <<>>, delLevel |-> 0, released |-> FALSE, res |-> <<>>,
     log |-> <<>>]

\* HttpClient::HttpClient(parent, headers)
NewClient(c, h) ==
    /\ CodeRunning
    /\ ~clients[c].made
    /\ clients' = [clients EXCEPT ![c] = [made |-> TRUE, headers |-> h]]
    /\ UNCHANGED <<token, ops, stack, events, lastSet, slots, seen, trust, lastCA>>

\* Faulty variant of setBearerToken: an empty argument does not clear the token.
setBearerToken_keepOnEmpty(jwtToken) ==
    /\ CodeRunning
    /\ token' = IF jwtToken = "" THEN token ELSE jwtToken
    /\ lastSet' = jwtToken
    /\ UNCHANGED <<clients, ops, stack, events, slots, seen, trust, lastCA>>

\* Faulty variant of setBearerToken: the requests in flight take the new token
\* too.
setBearerToken_rewritesInFlight(jwtToken) ==
    /\ CodeRunning
    /\ token' = jwtToken
    /\ lastSet' = jwtToken
    /\ ops' = [o \in DOMAIN ops |->
                 IF ops[o].fin THEN ops[o]
                 ELSE [ops[o] EXCEPT !.hdrs = setHeaders(clients[ops[o].client].headers, jwtToken)]]
    /\ UNCHANGED <<clients, stack, events, slots, seen, trust, lastCA>>

\* HttpClient::setBearerToken
setBearerToken(jwtToken) ==
    /\ CodeRunning
    /\ token' = jwtToken
    /\ lastSet' = jwtToken
    /\ UNCHANGED <<clients, ops, stack, events, slots, seen, trust, lastCA>>

\* Faulty variant of AsyncCall: the completion is handled inside the call, as
\* if the reply were finished on return and onReplyFinished called directly.
AsyncCall_finishedInline(c) ==
    /\ CodeRunning
    /\ clients[c].made
    /\ LET reply == [NewReply("async", c) EXCEPT !.fin = TRUE,
                                                 !.attr = [valid |-> TRUE, value |-> 200]]
           h == onReplyFinished(reply)
       IN /\ ops' = Append(ops, [reply EXCEPT !.del = <<"onReplyFinished">>,
                                              !.delLevel = Len(stack) + 1,
                                              !.log = onReplyFinishedOrder])
          /\ events' = events \o [i \in 1..Len(h.signals) |->
                                    [op |-> Len(ops) + 1, sig |-> h.signals[i].sig,
                                     data |-> h.signals[i].data]]
    /\ UNCHANGED <<token, clients, stack, lastSet, slots, seen, trust, lastCA>>

\* The body shared by get, post, put, patch and del: build the request, set
\* its headers, hand it to the manager, connect finished() to onReplyFinished
\* and return.
AsyncCall(c) ==
    /\ CodeRunning
    /\ clients[c].made
    /\ ops' = Append(ops, NewReply("async", c))
    /\ UNCHANGED <<token, clients, stack, events, lastSet, slots, seen, trust, lastCA>>

get(c)   == AsyncCall(c)
post(c)  == AsyncCall(c)
put(c)   == AsyncCall(c)
patch(c) == AsyncCall(c)
del(c)   == AsyncCall(c)

\* Faulty variant of SyncCall: finished() of the reply is not connected to the
\* quit slot of the loop that is run.
SyncCall_noQuitConnection(c) ==
    /\ CodeRunning
    /\ clients[c].made
    /\ ops' = Append(ops, NewReply("sync", c))
    /\ stack' = Append(stack, WaitFrame(0))
    /\ UNCHANGED <<token, clients, events, lastSet, slots, seen, trust, lastCA>>

\* The body shared by the _sync entry points up to loop.exec() in
\* waitForResponse: build and submit the request, connect finished() to the
\* quit slot of a new QEventLoop and run that loop.
SyncCall(c) ==
    /\ CodeRunning
    /\ clients[c].made
    /\ ops' = Append(ops, NewReply("sync", c))
    /\ stack' = Append(stack, WaitFrame(Len(ops) + 1))
    /\ UNCHANGED <<token, clients, events, lastSet, slots, seen, trust, lastCA>>

get_sync(c)   == SyncCall(c)
post_sync(c)  == SyncCall(c)
put_sync(c)   == SyncCall(c)
patch_sync(c) == SyncCall(c)
del_sync(c)   == SyncCall(c)

\* The HTTP methods for which the class declares an entry point on each path
\* (httpclient.hpp: get, head, post, put, patch, del and their _sync forms).
Methods == {"GET", "HEAD", "POST", "PUT", "PATCH", "DELETE"}
Paths == {"async", "sync"}
\* The entry points httpclient.cpp defines: head and head_sync have a
\* declaration and no definition, a program that calls them does not link.
Defined == {"GET", "POST", "PUT", "PATCH", "DELETE"} \X Paths

\* The reply once the transport has finished it with outcome out.
Finish(o, out) == [ops[o] EXCEPT !.fin = TRUE, !.err = out.err,
                                 !.attr = out.attr, !.body = out.body]

\* Faulty variant of AsyncFinished: completions are handled by the main event
\* loop only, never by the nested loop of a sync call.
AsyncFinished_mainLoopOnly(o, out) ==
    /\ stack = <<>>
    /\ o \in OpIds
    /\ ops[o].path = "async"
    /\ ~ops[o].fin
    /\ LET reply == Finish(o, out)
           h == onReplyFinished(reply)
       IN /\ ops' = [ops EXCEPT ![o] = [reply EXCEPT !.del = @ \o [i \in 1..h.deleteLater |-> "onReplyFinished"],
                                                     !.delLevel = Len(stack) + 1,
                                                     !.log = @ \o onReplyFinishedOrder]]
          /\ events' = events \o [i \in 1..Len(h.signals) |->
                                    [op |-> o, sig |-> h.signals[i].sig,
                                     data |-> h.signals[i].data]]
    /\ IF slots = <<>>
       THEN UNCHANGED <<stack, seen>>
       ELSE /\ stack' = Append(stack, CodeFrame(o, 1))
            /\ seen' = Append(seen, [slot |-> 1, op |-> o, inside |-> Emitting(stack)])
    /\ UNCHANGED <<token, clients, lastSet, slots, trust, lastCA>>

\* The transport finishes reply o with outcome out and a running event loop
\* delivers finished() to onReplyFinished; emit calls the first connected
\* slot (a code frame), the others follow as each returns.
AsyncFinished(o, out) ==
    /\ LoopRunning
    /\ o \in OpIds
    /\ ops[o].path = "async"
    /\ ~ops[o].fin
    /\ LET reply == Finish(o, out)
           h == onReplyFinished(reply)
       IN /\ ops' = [ops EXCEPT ![o] = [reply EXCEPT !.del = @ \o [i \in 1..h.deleteLater |-> "onReplyFinished"],
                                                     !.delLevel = Len(stack) + 1,
                                                     !.log = @ \o onReplyFinishedOrder]]
          /\ events' = events \o [i \in 1..Len(h.signals) |->
                                    [op |-> o, sig |-> h.signals[i].sig,
                                     data |-> h.signals[i].data]]
    /\ IF slots = <<>>
       THEN UNCHANGED <<stack, seen>>
       ELSE /\ stack' = Append(stack, CodeFrame(o, 1))
            /\ seen' = Append(seen, [slot |-> 1, op |-> o, inside |-> Emitting(stack)])
    /\ UNCHANGED <<token, clients, lastSet, slots, trust, lastCA>>

\* Faulty variant of SyncFinished: finished() quits the innermost nested loop,
\* whichever reply that loop waits for.
SyncFinished_quitsInnermost(o, out) ==
    /\ LoopRunning
    /\ o \in OpIds
    /\ ops[o].path = "sync"
    /\ ~ops[o].fin
    /\ ops' = [ops EXCEPT ![o] = Finish(o, out)]
    /\ stack' = [i \in DOMAIN stack |->
                   IF stack[i].k = "wait" /\ i = Len(stack)
                   THEN [stack[i] EXCEPT !.quit = TRUE] ELSE stack[i]]
    /\ UNCHANGED <<token, clients, events, lastSet, slots, seen, trust, lastCA>>

\* Faulty variant of SyncFinished: finished() of a sync reply is connected to
\* onReplyFinished as well, which emits its signal.
SyncFinished_alsoHandled(o, out) ==
    /\ LoopRunning
    /\ o \in OpIds
    /\ ops[o].path = "sync"
    /\ ~ops[o].fin
    /\ LET h == onReplyFinished(Finish(o, out))
       IN events' = events \o [i \in 1..Len(h.signals) |->
                                 [op |-> o, sig |-> h.signals[i].sig,
                                  data |-> h.signals[i].data]]
    /\ ops' = [ops EXCEPT ![o] = Finish(o, out)]
    /\ stack' = [i \in DOMAIN stack |->
                   IF stack[i].k = "wait" /\ stack[i].op = o
                   THEN [stack[i] EXCEPT !.quit = TRUE] ELSE stack[i]]
    /\ UNCHANGED <<token, clients, lastSet, slots, seen, trust, lastCA>>

\* The transport finishes reply o of a sync call and a running event loop
\* delivers finished() to QEventLoop::quit of the loop waiting for o.
SyncFinished(o, out) ==
    /\ LoopRunning
    /\ o \in OpIds
    /\ ops[o].path = "sync"
    /\ ~ops[o].fin
    /\ ops' = [ops EXCEPT ![o] = Finish(o, out)]
    /\ stack' = [i \in DOMAIN stack |->
                   IF stack[i].k = "wait" /\ stack[i].op = o
                   THEN [stack[i] EXCEPT !.quit = TRUE] ELSE stack[i]]
    /\ UNCHANGED <<token, clients, events, lastSet, slots, seen, trust, lastCA>>

\* loop.exec() of the innermost wait returns after quit(): the rest of
\* waitForResponse runs and the sync entry point returns or throws into the
\* slot that called it.
WaitReturn ==
    /\ stack # <<>>
    /\ Top.k = "wait"
    /\ Top.quit
    /\ LET o == Top.op
           w == waitForResponse(ops[o])
       IN ops' = [ops EXCEPT ![o] = [@ EXCEPT !.del = @ \o [i \in 1..w.deleteLater |-> "waitForResponse"],
                                               !.delLevel = Len(stack) - 1,
                                               !.res = Append(@, w.result),
                                               !.log = @ \o waitForResponseOrder]]
    /\ stack' = Pop
    /\ UNCHANGED <<token, clients, events, lastSet, slots, seen, trust, lastCA>>

\* Faulty variant of DeferredDelete: the reply is deleted by the next event
\* loop that runs, a nested one included.
DeferredDelete_anyLoop(o) ==
    /\ LoopRunning
    /\ o \in OpIds
    /\ ops[o].del # <<>>
    /\ ~ops[o].released
    /\ ops' = [ops EXCEPT ![o].released = TRUE, ![o].log = Append(@, "released")]
    /\ UNCHANGED <<token, clients, stack, events, lastSet, slots, seen, trust, lastCA>>

\* QObject::deleteLater: the reply is deleted once control is back in an event
\* loop below the frame that asked for the deletion.
DeferredDelete(o) ==
    /\ LoopRunning
    /\ o \in OpIds
    /\ ops[o].del # <<>>
    /\ ~ops[o].released
    /\ Len(stack) < ops[o].delLevel
    /\ ops' = [ops EXCEPT ![o].released = TRUE, ![o].log = Append(@, "released")]
    /\ UNCHANGED <<token, clients, stack, events, lastSet, slots, seen, trust, lastCA>>

\* An event loop invokes a slot of the application.
SlotStart ==
    /\ LoopRunning
    /\ stack' = Append(stack, CodeFrame(0, 0))
    /\ UNCHANGED <<token, clients, ops, events, lastSet, slots, seen, trust, lastCA>>

\* Faulty variant of SlotReturn: emit calls the first connected slot only.
SlotReturn_firstObserverOnly ==
    /\ CodeRunning
    /\ stack' = Pop
    /\ UNCHANGED <<token, clients, ops, events, lastSet, slots, seen, trust, lastCA>>

\* The running slot returns: to emit, which calls the next connected slot, or
\* (the last observer, or an application slot) to the event loop below.
SlotReturn ==
    /\ CodeRunning
    /\ IF Top.op # 0 /\ Top.slot < Len(slots)
       THEN /\ stack' = [stack EXCEPT ![Len(stack)].slot = @ + 1]
            /\ seen' = Append(seen, [slot |-> Top.slot + 1, op |-> Top.op,
                                     inside |-> Emitting(Pop)])
       ELSE /\ stack' = Pop
            /\ UNCHANGED seen
    /\ UNCHANGED <<token, clients, ops, events, lastSet, slots, trust, lastCA>>

\* ----------------------------------------------------------- trust store
\* The certificate files the application may name, and what QFile::open and
\* readAll give for each: the PEM blocks of the file, or an error.
CertPaths == {"ca.pem", "bundle.pem", "empty.pem", "missing.pem"}
Files ==
    [p \in CertPaths |->
        CASE p = "ca.pem"     -> [readable |-> TRUE, bytes |-> <<"certA">>, errorString |-> ""]
          [] p = "bundle.pem" -> [readable |-> TRUE, bytes |-> <<"certB", "certA">>, errorString |-> ""]
          [] p = "empty.pem"  -> [readable |-> TRUE, bytes |-> <<>>, errorString |-> ""]
          [] OTHER            -> [readable |-> FALSE, bytes |-> <<>>,
                                  errorString |-> "No such file or directory"]]

\* QSslCertificate(bytes): the first certificate encoded in the bytes, the null
\* certificate when there is none.
QSslCertificate(bytes) == IF bytes = <<>> THEN "null" ELSE Head(bytes)

\* The CA certificates of the default configuration at program start.
SystemCAs == <<"systemCA">>
\* No setRootCA call yet.
NoCall == [path |-> "", kind |-> "none", statusCode |-> 0, message |-> "", before |-> <<>>]

\* Faulty variant of setRootCA: the throw is missing, the unopened file is read
\* (no bytes) and the certificate made of it is appended.
setRootCA_noThrow(certPath) ==
    /\ CodeRunning
    /\ LET file == Files[certPath]
           certificate == QSslCertificate(file.bytes)
       IN /\ trust' = Append(trust, certificate)
          /\ lastCA' = [path |-> certPath, kind |-> "return", statusCode |-> 0,
                        message |-> "", before |-> trust]
    /\ UNCHANGED <<token, clients, ops, stack, events, lastSet, slots, seen>>

\* HttpClient::setRootCA
setRootCA(certPath) ==
    /\ CodeRunning
    /\ LET file == Files[certPath]
           certificate == QSslCertificate(file.bytes)
       IN IF ~file.readable
          THEN /\ lastCA' = [path |-> certPath, kind |-> "throw", statusCode |-> 0,
                             message |-> file.errorString, before |-> trust]
               /\ UNCHANGED trust
          ELSE /\ trust' = Append(trust, certificate)
               /\ lastCA' = [path |-> certPath, kind |-> "return", statusCode |-> 0,
                             message |-> "", before |-> trust]
    /\ UNCHANGED <<token, clients, ops, stack, events, lastSet, slots, seen>>

\* --------------------------------------------------------- specification
\* Program start: no client constructed, the static token empty (line 41),
\* the default trust store; the application connects the slots obs to the
\* signals of its clients.
InitWith(obs) ==
    /\ token = ""
    /\ clients = [c \in Clients |-> NoClient]
    /\ ops = <<>>
    /\ stack = <<>>
    /\ events = <<>>
    /\ lastSet = ""
    /\ slots = obs
    /\ seen = <<>>
    /\ trust = SystemCAs
    /\ lastCA = NoCall

\* One slot is connected to success and error.
Init == InitWith(<<"onDone">>)

\* The program in an environment that constructs clients cs with default
\* headers from hs, sets tokens from toks, lets the transport answer with
\* outcomes from outs, creates at most lim replies and lets application slots
\* and sync calls nest at most depth frames deep.
NextIn(cs, hs, toks, outs, lim, depth) ==
    \/ \E c \in cs, h \in hs : NewClient(c, h)
    \/ \E t \in toks : setBearerToken(t)
    \/ \E c \in cs : Len(ops) < lim /\ get(c)
    \/ \E c \in cs : Len(ops) < lim /\ post(c)
    \/ \E c \in cs : Len(ops) < lim /\ put(c)
    \/ \E c \in cs : Len(ops) < lim /\ patch(c)
    \/ \E c \in cs : Len(ops) < lim /\ del(c)
    \/ \E c \in cs : Len(ops) < lim /\ Len(stack) < depth /\ get_sync(c)
    \/ \E c \in cs : Len(ops) < lim /\ Len(stack) < depth /\ post_sync(c)
    \/ \E c \in cs : Len(ops) < lim /\ Len(stack) < depth /\ put_sync(c)
    \/ \E c \in cs : Len(ops) < lim /\ Len(stack) < depth /\ patch_sync(c)
    \/ \E c \in cs : Len(ops) < lim /\ Len(stack) < depth /\ del_sync(c)
    \/ \E o \in OpIds, out \in outs : AsyncFinished(o, out)
    \/ \E o \in OpIds, out \in outs : SyncFinished(o, out)
    \/ WaitReturn
    \/ \E o \in OpIds : DeferredDelete(o)
    \/ Len(stack) < depth /\ SlotStart
    \/ SlotReturn

Status(s) == [valid |-> TRUE, value |-> s]
\* A success, a failure by status and a failure by transport error.
FewOutcomes ==
    { [err |-> FALSE, attr |-> Status(200), body |-> <<"a">>],
      [err |-> FALSE, attr |-> Status(301), body |-> <<>>],
      [err |-> TRUE,  attr |-> NoStatus,    body |-> <<"x80">>] }
\* Default headers that supply an Authorization header of their own.
ClientHeaders == {[n \in {"authorization"} |-> "v2"]}

\* A success and a failure.
LifeOutcomes == {out \in FewOutcomes : ~out.err}

\* One client, no token: the life cycle of replies under interleaved
\* submissions, completions and nested waits.
Next == NextIn({"c1"}, {EmptyMap}, {""}, LifeOutcomes, MaxOps, MaxDepth)
Spec == Init /\ [][Next]_vars

\* One client, no token: every outcome the transport can report.
NextOutcome == NextIn({"c1"}, {EmptyMap}, {""}, Outcomes, MaxFewOps, MaxFewDepth)
SpecOutcome == Init /\ [][NextOutcome]_vars

\* One client with every default header set, every token.
NextHeaders == NextIn({"c1"}, HeaderMaps, Tokens, {CHOOSE out \in FewOutcomes : ~out.err}, MaxFewOps, MaxFewDepth)
SpecHeaders == Init /\ [][NextHeaders]_vars

\* One client, no token, and changes of the trust store.
NextTrust ==
    \/ NextIn({"c1"}, {EmptyMap}, {""}, {CHOOSE out \in FewOutcomes : ~out.err}, MaxFewOps, MaxFewDepth)
    \/ \E p \in CertPaths : Len(trust) < Len(SystemCAs) + MaxCerts /\ setRootCA(p)
SpecTrust == Init /\ [][NextTrust]_vars

\* One client, no token, two slots connected to success and error.
InitObservers == InitWith(<<"onDone", "onDoneToo">>)
NextObservers == NextIn({"c1"}, {EmptyMap}, {""}, LifeOutcomes, MaxOps, MaxObsDepth)
SpecObservers == InitObservers /\ [][NextObservers]_vars

\* Several clients, changing tokens.
NextConfig == NextIn(Clients, ClientHeaders, Tokens, {CHOOSE out \in FewOutcomes : out.err}, MaxConfigOps, MaxFewDepth)
SpecConfig == Init /\ [][NextConfig]_vars


\* ================================================================ claims
\* The signals emitted for reply o, in order.
EventsOf(o) == SelectSeq(events, LAMBDA e : e.op = o)
AsyncDone(o) == ops[o].path = "async" /\ ops[o].fin
SyncDone(o) == ops[o].path = "sync" /\ ops[o].res # <<>>
\* The outcome delivered for reply o, as the caller sees it.
Delivered(o) == AsyncDone(o) \/ SyncDone(o)
DeliveredFailure(o) ==
    IF ops[o].path = "async"
    THEN \E i \in DOMAIN events : events[i].op = o /\ events[i].sig = "error"
    ELSE \E i \in DOMAIN ops[o].res : ops[o].res[i].kind = "throw"
DeliveredSuccess(o) ==
    IF ops[o].path = "async"
    THEN \E i \in DOMAIN events : events[i].op = o /\ events[i].sig = "success"
    ELSE \E i \in DOMAIN ops[o].res : ops[o].res[i].kind = "return"
\* The HTTP status the finished reply carries, if any, is above 300.
StatusOver300(o) == ops[o].attr.valid /\ ops[o].attr.value > 300

\* C1: a completed operation is delivered as Failure iff the transport
\* reported an error or the HTTP status is strictly greater than 300, and as
\* Success otherwise, on the async path (the signal emitted) and on the sync
\* path (return or throw) alike; two operations with the same transport error,
\* status and body are classified the same whatever their paths.
C1_Classification ==
    /\ \A o \in OpIds : Delivered(o) =>
          /\ DeliveredFailure(o) <=> (ops[o].err \/ StatusOver300(o))
          /\ DeliveredSuccess(o) <=> ~(ops[o].err \/ StatusOver300(o))
    /\ \A o1, o2 \in OpIds :
          (/\ Delivered(o1) /\ Delivered(o2)
           /\ ops[o1].err = ops[o2].err
           /\ ops[o1].attr = ops[o2].attr
           /\ ops[o1].body = ops[o2].body)
          => (DeliveredFailure(o1) <=> DeliveredFailure(o2))

\* Status 300 without a transport error was delivered as Success by the
\* async handler.
C1_Witness ==
    \E o \in OpIds :
        /\ AsyncDone(o)
        /\ ~ops[o].err
        /\ ops[o].attr.valid /\ ops[o].attr.value = 300
        /\ DeliveredSuccess(o)

\* C4 as stated: whenever the transport reported an error, the outcome is a
\* Failure and the NetworkException of the sync path reports status 0,
\* whatever status the reply carries.
C4_StatusZeroOnTransportError ==
    \A o \in OpIds : (Delivered(o) /\ ops[o].err) =>
        /\ DeliveredFailure(o)
        /\ \A i \in DOMAIN ops[o].res :
              ops[o].res[i].kind = "throw" /\ ops[o].res[i].statusCode = 0

\* C4 amended: whenever the transport reported an error, the outcome is a
\* Failure on both paths, and the NetworkException of the sync path reports
\* the status the reply itself carries: 0 exactly when it carries none.
C4_StatusOfReplyOnTransportError ==
    \A o \in OpIds : (Delivered(o) /\ ops[o].err) =>
        /\ DeliveredFailure(o)
        /\ ~DeliveredSuccess(o)
        /\ \A i \in DOMAIN ops[o].res :
              /\ ops[o].res[i].kind = "throw"
              /\ ops[o].attr.valid => ops[o].res[i].statusCode = ops[o].attr.value
              /\ ~ops[o].attr.valid <=> ops[o].res[i].statusCode = 0

\* A sync call threw for a reply with a transport error and an HTTP status.
C4_Witness ==
    \E o \in OpIds :
        /\ SyncDone(o)
        /\ ops[o].err
        /\ ops[o].attr.valid
        /\ ops[o].res[1].kind = "throw"


\* Every byte of the body is valid UTF-8 on its own.
ValidUtf8(bytes) == \A i \in DOMAIN bytes : bytes[i] # "x80"
\* The status a finished reply carries: 0 when it carries none.
StatusOf(o) == IF ops[o].attr.valid THEN ops[o].attr.value ELSE 0

C2_ExactlyOneEvent ==
    \A o \in OpIds : ops[o].path = "async" =>
        /\ ops[o].fin => Len(EventsOf(o)) = 1
        /\ ~ops[o].fin => Len(EventsOf(o)) = 0
        /\ ~(DeliveredSuccess(o) /\ DeliveredFailure(o))

\* Two async requests completed in the reverse order of their submission, one
\* with success and one with error, while a third is still in flight.
C2_Witness ==
    \E o1, o2, o3 \in OpIds :
        /\ o1 < o2
        /\ AsyncDone(o1) /\ DeliveredSuccess(o1)
        /\ AsyncDone(o2) /\ DeliveredFailure(o2)
        /\ events[1].op = o2
        /\ ops[o3].path = "async" /\ ~ops[o3].fin

\* The nested loop of waitForResponse for reply o has not returned yet.
InWait(o) == \E i \in DOMAIN stack : stack[i].k = "wait" /\ stack[i].op = o

\* C3: a sync call still waiting has neither returned nor thrown; one that is
\* over has done exactly one of the two, once, after its reply finished: it
\* returned the body iff the outcome is Success and threw iff it is Failure.
C3_ReturnXorThrow ==
    \A o \in OpIds : ops[o].path = "sync" =>
        /\ InWait(o) => ops[o].res = <<>>
        /\ ~InWait(o) => Len(ops[o].res) = 1 /\ ops[o].fin
        /\ \A i \in DOMAIN ops[o].res :
              /\ ops[o].res[i].kind \in {"return", "throw"}
              /\ ops[o].res[i].kind = "throw" <=> (ops[o].err \/ StatusOver300(o))
              /\ ops[o].res[i].kind = "return" => ops[o].res[i].data = ops[o].body

\* One sync call returned, another threw because of the status alone.
C3_Witness ==
    \E o1, o2 \in OpIds :
        /\ SyncDone(o1) /\ ops[o1].res[1].kind = "return"
        /\ SyncDone(o2) /\ ops[o2].res[1].kind = "throw" /\ ~ops[o2].err

\* The completion of reply o has been consumed by the path that submitted it.
Consumed(o) == IF ops[o].path = "async" THEN ops[o].fin ELSE ops[o].res # <<>>
Owner(o) == IF ops[o].path = "async" THEN "onReplyFinished" ELSE "waitForResponse"

\* C5: disposal of a reply is requested exactly once, by the path that
\* submitted it, when its completion is consumed: never before, never twice,
\* and on Success and Failure alike; a reply is released only after that.
C5_DisposedOnce ==
    \A o \in OpIds :
        /\ Consumed(o) => ops[o].del = <<Owner(o)>>
        /\ ~Consumed(o) => ops[o].del = <<>>
        /\ ops[o].released => Consumed(o)

\* A failed async reply and a sync reply have both been disposed of once, and
\* the async one is released.
C5_Witness ==
    \E o1, o2 \in OpIds :
        /\ AsyncDone(o1) /\ DeliveredFailure(o1)
        /\ ops[o1].del = <<"onReplyFinished">> /\ ops[o1].released
        /\ SyncDone(o2) /\ ops[o2].del = <<"waitForResponse">>


\* The positions of the Authorization headers of a request (names compared as
\* HTTP does, without regard to case).
AuthAt(h) == {i \in DOMAIN h : SameHeader(h[i][1], "Authorization")}
\* A header value derived from some bearer token.
BearerValues == {"Bearer " \o t : t \in Tokens \ {""}}
DefaultsOf(o) == clients[ops[o].client].headers

Shadows(k2, k) ==
    /\ SameHeader(k2, k)
    /\ \E i, j \in DOMAIN KeyOrder : i < j /\ KeyOrder[i] = k /\ KeyOrder[j] = k2

C8_NoAuthorizationWhenEmpty ==
    \A o \in OpIds : ops[o].tok = "" => AuthAt(ops[o].hdrs) = {}

\* C8 amended: a request built while the token is empty has no token-derived
\* Authorization header: it has an Authorization header only if the instance's
\* default headers supply one, and then with the value the instance supplies.
C8_NoBearerWhenEmpty ==
    \A o \in OpIds : ops[o].tok = "" =>
        LET h == ops[o].hdrs
        IN /\ \A i \in DOMAIN h : h[i][2] \notin BearerValues
           /\ \A i \in AuthAt(h) :
                 \E k \in DOMAIN DefaultsOf(o) : h[i] = <<k, DefaultsOf(o)[k]>>
           /\ (\E k \in DOMAIN DefaultsOf(o) : SameHeader(k, "Authorization"))
              => AuthAt(h) # {}

\* A request was built under the empty token by an instance whose defaults
\* hold an Authorization header.
C8_Witness ==
    \E o \in OpIds :
        /\ ops[o].tok = ""
        /\ \E k \in DOMAIN DefaultsOf(o) : SameHeader(k, "Authorization")

\* C9: a request submitted by any instance, sync or async, after the last
\* setBearerToken(t) carries exactly one Authorization header, "Bearer " t,
\* when t is not empty, and no token-derived header when t is empty (the
\* token cleared, or never set).
C9_TokenIsProcessWide ==
    \A o \in OpIds :
        LET h == ops[o].hdrs
        IN IF ops[o].asked # ""
           THEN /\ Cardinality(AuthAt(h)) = 1
                /\ \A i \in AuthAt(h) : h[i][2] = "Bearer " \o ops[o].asked
           ELSE \A i \in DOMAIN h : h[i][2] \notin BearerValues

\* Two instances submitted, one async and one sync, the first under a token
\* and the second after the token was cleared again.
C9_Witness ==
    \E o1, o2 \in OpIds :
        /\ o1 < o2
        /\ ops[o1].client # ops[o2].client
        /\ ops[o1].path # ops[o2].path
        /\ ops[o1].asked # ""
        /\ ops[o2].asked = ""


\* The transport eventually finishes every reply while event loops keep
\* running, a loop that was told to quit eventually returns, and a running
\* slot eventually returns.
Fairness ==
    /\ \A o \in 1..MaxConfigOps :
          /\ SF_vars(\E out \in LifeOutcomes : AsyncFinished(o, out))
          /\ SF_vars(\E out \in LifeOutcomes : SyncFinished(o, out))
    /\ SF_vars(WaitReturn)
    /\ WF_vars(SlotReturn)
\* One client, no token, under fairness.
NextLive == NextIn({"c1"}, {EmptyMap}, {""}, LifeOutcomes, MaxConfigOps, MaxDepth)
LiveSpec == Init /\ [][NextLive]_vars /\ Fairness

\* Reply o exists and its outcome has reached its caller: a signal was emitted
\* for an async request, the call returned or threw for a sync request.
Terminal(o) ==
    /\ o \in OpIds
    /\ IF ops[o].path = "async" THEN EventsOf(o) # <<>> ELSE ops[o].res # <<>>

\* C6: under that fairness every submitted operation eventually reaches a
\* terminal outcome: an async request emits success or error, a sync request
\* returns or throws.
C6_EventuallyTerminal ==
    \A o \in 1..MaxConfigOps : (o \in OpIds) ~> Terminal(o)

\* An async and a sync request have both reached their terminal outcome, the
\* async one as a failure.
C6_Witness ==
    \E o1, o2 \in OpIds :
        /\ ops[o1].path = "async" /\ Terminal(o1) /\ DeliveredFailure(o1)
        /\ ops[o2].path = "sync" /\ Terminal(o2)

\* C11: a call of get, post, put, patch or del submits the request and returns
\* without running an event loop: the step that submits an async request
\* pushes no frame and emits nothing, and the new reply is not finished; a
\* signal for a request is emitted only in a later step, taken by a running
\* event loop, for a request submitted before that step.
C11_CompletionInLaterTurn ==
    [][ /\ \A o \in 1..Len(ops') :
             (o \notin OpIds /\ ops'[o].path = "async") =>
                 /\ stack' = stack
                 /\ events' = events
                 /\ ~ops'[o].fin
        /\ \A o \in 1..Len(ops') :
             Len(EventsOf(o)') > (IF o \in OpIds THEN Len(EventsOf(o)) ELSE 0) =>
                 /\ o \in OpIds
                 /\ LoopRunning
                 /\ ~ops[o].fin /\ ops'[o].fin
      ]_vars

\* The signal of an async request has been emitted while a slot is running
\* that has submitted another async request, still in flight.
C11_Witness ==
    /\ CodeRunning
    /\ \E o1, o2 \in OpIds :
          /\ AsyncDone(o1) /\ EventsOf(o1) # <<>>
          /\ o1 < o2
          /\ ops[o2].path = "async" /\ ~ops[o2].fin /\ EventsOf(o2) = <<>>

\* C12: for each of the six HTTP methods a constructed client has a working
\* async and a working sync entry point, and every request an entry point
\* submits carries the injected headers.
C12_SixMethodsWork ==
    /\ \A c \in Clients : clients[c].made =>
          \A m \in Methods, p \in Paths : <<m, p>> \in Defined
    /\ \A o \in OpIds : ops[o].hdrs = setHeaders(DefaultsOf(o), ops[o].tok)

\* C13: the last setRootCA call, when its file could not be opened, threw at
\* once an exception with status code 0 and left the trust store as it was;
\* when the file could be opened the call returned and the trust store is the
\* one before the call with exactly one certificate appended (the one made of
\* the file's bytes); the certificates the store started with are never
\* removed.
C13_RootCAAppendOnly ==
    /\ lastCA.kind # "none" =>
          IF ~Files[lastCA.path].readable
          THEN /\ lastCA.kind = "throw"
               /\ lastCA.statusCode = 0
               /\ trust = lastCA.before
          ELSE /\ lastCA.kind = "return"
               /\ trust = Append(lastCA.before, QSslCertificate(Files[lastCA.path].bytes))
    /\ Len(trust) >= Len(SystemCAs)
    /\ SubSeq(trust, 1, Len(SystemCAs)) = SystemCAs

\* setRootCA failed on an unreadable file after a certificate had been added,
\* and the store still holds that certificate.
C13_Witness ==
    /\ lastCA.kind = "throw"
    /\ ~Files[lastCA.path].readable
    /\ Len(trust) = Len(SystemCAs) + 1
    /\ trust[Len(trust)] = "certA"

\* C14: a sync call that has returned or thrown did so after its own reply
\* finished, and a call whose reply has not finished is still suspended in its
\* nested loop, whatever other replies finished meanwhile; what it returned is
\* the body of its own reply, what it threw carries the status and the body
\* of its own reply.
C14_OwnOperation ==
    \A o \in OpIds : ops[o].path = "sync" =>
        /\ ops[o].res # <<>> => ops[o].fin
        /\ ~ops[o].fin => InWait(o) /\ ops[o].res = <<>>
        /\ \A i \in DOMAIN ops[o].res :
              IF ops[o].res[i].kind = "return"
              THEN ops[o].res[i].data = ops[o].body
              ELSE /\ ops[o].res[i].statusCode = StatusOf(o)
                   /\ ops[o].res[i].message = toStdString(fromUtf8(ops[o].body))

\* A sync call made by an observer inside the wait of another sync call has
\* returned its own body, although the reply of the outer call, a failure by
\* status, finished first; the outer call is still suspended.
C14_Witness ==
    \E o1, o2, o3 \in OpIds :
        /\ o1 < o3
        /\ ops[o1].path = "sync" /\ ops[o1].fin /\ InWait(o1) /\ StatusOver300(o1)
        /\ ops[o2].path = "async" /\ ops[o2].fin
        /\ \E i \in DOMAIN stack : stack[i].k = "code" /\ stack[i].op = o2
        /\ SyncDone(o3)
        /\ ops[o3].res[1] = [kind |-> "return", data |-> <<"a">>]

\* C15: the nested wait of a sync call is not isolated: whenever the innermost
\* running loop is the one of a suspended sync call and an async request is in
\* flight, the completion of that request can be delivered there and then,
\* before the sync call returns.
C15_WaitNotIsolated ==
    \A o \in OpIds :
        (ops[o].path = "async" /\ ~ops[o].fin /\ stack # <<>> /\ LoopRunning)
        => ENABLED (\E out \in LifeOutcomes : AsyncFinished(o, out))

\* The signal of an async request submitted before a sync call has been
\* emitted to an observer, which is running, inside the wait of that sync
\* call, which has neither returned nor thrown.
C15_Witness ==
    \E o, w \in OpIds, i, j \in DOMAIN stack :
        /\ o < w
        /\ ops[o].path = "async" /\ EventsOf(o) # <<>>
        /\ ops[w].path = "sync" /\ ops[w].res = <<>> /\ ~ops[w].fin
        /\ i < j
        /\ stack[i].k = "wait" /\ stack[i].op = w
        /\ stack[j].k = "code" /\ stack[j].op = o

\* Slot number s has been called for the signal of reply o, and where in the
\* sequence of all slot calls.
Received(s, o) == \E n \in DOMAIN seen : seen[n].slot = s /\ seen[n].op = o
SeenAt(s, o) == CHOOSE n \in DOMAIN seen : seen[n].slot = s /\ seen[n].op = o
\* The emission for reply o is over: no slot called for it is still running.
EmissionOver(o) == ~\E n \in DOMAIN stack : stack[n].k = "code" /\ stack[n].op = o

\* C16 as stated: of two async requests whose completions the transport
\* delivered in some order, every observer that has received both signals
\* received them in that order, also when an observer makes a sync call
\* while handling a signal.
C16_TransportOrder ==
    \A i, j \in DOMAIN events, s \in DOMAIN slots :
        (i < j /\ Received(s, events[i].op) /\ Received(s, events[j].op))
        => SeenAt(s, events[i].op) < SeenAt(s, events[j].op)

\* C16 amended: every slot is called once for every signal, synchronously
\* within onReplyFinished, in connection order; of two completions delivered
\* in some order an observer receives the signals in that order, except when
\* the second was delivered inside a nested wait (a sync call) made by an
\* observer connected before it that was handling the first signal: then it
\* receives the second signal first.
C16_TransportOrderUnlessNestedWait ==
    /\ \A i \in DOMAIN events, s \in DOMAIN slots :
          /\ Cardinality({n \in DOMAIN seen : seen[n].slot = s /\ seen[n].op = events[i].op}) <= 1
          /\ EmissionOver(events[i].op) => Received(s, events[i].op)
          /\ (s > 1 /\ Received(s, events[i].op)) =>
                /\ Received(s - 1, events[i].op)
                /\ SeenAt(s - 1, events[i].op) < SeenAt(s, events[i].op)
    /\ \A i, j \in DOMAIN events, s \in DOMAIN slots :
          (i < j /\ Received(s, events[i].op) /\ Received(s, events[j].op))
          => LET inside == seen[SeenAt(s, events[j].op)].inside
                 nested == \E n \in DOMAIN inside :
                              inside[n].op = events[i].op /\ inside[n].slot < s
             IN (SeenAt(s, events[i].op) < SeenAt(s, events[j].op)) <=> ~nested

\* The second observer has received the signals of two async requests in the
\* reverse of the order of their completions, the first observer in that
\* order; both emissions are over.
C16_Witness ==
    \E i, j \in DOMAIN events :
        /\ i < j
        /\ EmissionOver(events[i].op) /\ EmissionOver(events[j].op)
        /\ Received(1, events[i].op) /\ Received(1, events[j].op)
        /\ Received(2, events[i].op) /\ Received(2, events[j].op)
        /\ SeenAt(1, events[i].op) < SeenAt(1, events[j].op)
        /\ SeenAt(2, events[j].op) < SeenAt(2, events[i].op)

\* The accesses that read the state of a reply.
Reads == {"error", "readAll", "attribute"}

\* C17: the completion path reads the error indicator, the body and the
\* status of a reply before it asks for its disposal; the reply is released
\* only later, by an event loop, when the emission made by onReplyFinished is
\* over (no observer of that signal is still running, not even one suspended
\* in a nested wait), respectively when waitForResponse has produced its
\* result; nothing is done with a reply after its release.
C17_DeferredDisposal ==
    \A o \in OpIds :
        LET l == ops[o].log
        IN /\ \A i, j \in DOMAIN l :
                 (l[i] \in Reads /\ l[j] = "deleteLater") => i < j
           /\ ops[o].del # <<>> => Reads \subseteq {l[i] : i \in DOMAIN l}
           /\ \A i, j \in DOMAIN l : l[i] = "released" => j <= i
           /\ ops[o].released <=> (l # <<>> /\ l[Len(l)] = "released")
           /\ ops[o].released =>
                 /\ EmissionOver(o)
                 /\ ~InWait(o)
                 /\ \E i, j \in DOMAIN l :
                       i < j /\ j < Len(l) /\ l[i] = "deleteLater" /\ l[j] \in {"emit", "result"}

\* An observer of the signal of an async reply is suspended in a nested wait
\* in which other events are delivered, and the reply, whose disposal has
\* been asked for, is not released; an earlier reply has been released.
C17_Witness ==
    \E o, o0 \in OpIds, i \in DOMAIN stack :
        /\ ops[o].path = "async" /\ ops[o].del # <<>> /\ ~ops[o].released
        /\ stack[i].k = "code" /\ stack[i].op = o
        /\ i < Len(stack)
        /\ LoopRunning
        /\ ops[o0].released

\* C18: in every step, the headers of a request submitted in that step are
\* the ones setHeaders builds from the instance's default headers and the
\* token of that moment, and the headers of every request submitted before
\* stay what they were, whatever setBearerToken does (set or clear) while the
\* request is in flight.
C18_SubmittedRequestImmutable ==
    [][ \A o \in 1..Len(ops') :
          IF o \in OpIds
          THEN /\ ops'[o].hdrs = ops[o].hdrs
               /\ ops'[o].tok = ops[o].tok
               /\ ops'[o].client = ops[o].client
          ELSE /\ ops'[o].tok = token
               /\ ops'[o].hdrs = setHeaders(clients[ops'[o].client].headers, token)
      ]_vars

\* A request in flight still carries the token under which it was submitted,
\* the token has been cleared since, and a request submitted by the same
\* client after that carries no bearer header.
C18_Witness ==
    \E o1, o2 \in OpIds :
        /\ o1 < o2
        /\ ops[o1].client = ops[o2].client
        /\ ~ops[o1].fin
        /\ ops[o1].tok = "abc" /\ token = "" /\ ops[o2].tok = ""
        /\ \E i \in DOMAIN ops[o1].hdrs : ops[o1].hdrs[i][2] = "Bearer abc"
        /\ \A i \in DOMAIN ops[o2].hdrs : ops[o2].hdrs[i][2] \notin BearerValues

\* C19: a reply created by a sync entry point never has a signal emitted for
\* it nor a slot called for it, and only waitForResponse disposes of it; a reply
\* created by an async entry point never yields a return value or an
\* exception and no loop ever waits for it, and only onReplyFinished disposes
\* of it.
C19_PathsDoNotLeak ==
    \A o \in OpIds :
        IF ops[o].path = "sync"
        THEN /\ EventsOf(o) = <<>>
             /\ \A n \in DOMAIN seen : seen[n].op # o
             /\ EmissionOver(o)
             /\ \A i \in DOMAIN ops[o].del : ops[o].del[i] = "waitForResponse"
        ELSE /\ ops[o].res = <<>>
             /\ ~InWait(o)
             /\ \A i \in DOMAIN ops[o].del : ops[o].del[i] = "onReplyFinished"

\* A sync call has thrown and the signal of an async request submitted before
\* it has been emitted to an observer; each reply was disposed of by its own
\* path.
C19_Witness ==
    \E o, w \in OpIds, n \in DOMAIN seen :
        /\ o < w
        /\ ops[o].path = "async" /\ ~ops[w].released
        /\ seen[n].op = o
        /\ SyncDone(w) /\ ops[w].res[1].kind = "throw"
        /\ ops[w].del = <<"waitForResponse">> /\ ops[o].del = <<"onReplyFinished">>

\* C20: the quit slot of the waiting loop is connected in the step that submits
\* the request, so the completion of a sync request is never delivered to
\* nobody: while the reply is unfinished a loop is waiting for it and has not
\* been told to quit, and once it is finished that loop has been told to quit
\* or the call has already returned or thrown.
C20_NoLostWakeup ==
    \A o \in OpIds : ops[o].path = "sync" =>
        /\ ~ops[o].fin =>
              \E i \in DOMAIN stack :
                  stack[i].k = "wait" /\ stack[i].op = o /\ ~stack[i].quit
        /\ (ops[o].fin /\ ops[o].res = <<>>) =>
              \E i \in DOMAIN stack :
                  stack[i].k = "wait" /\ stack[i].op = o /\ stack[i].quit
        /\ Cardinality({i \in DOMAIN stack : stack[i].k = "wait" /\ stack[i].op = o}) <= 1

\* The reply of an outer sync call finished while an inner sync call was
\* waiting: the outer loop has been told to quit and will return when the
\* inner call, still waiting, is over.
C20_Witness ==
    \E i, j \in DOMAIN stack :
        /\ i < j
        /\ stack[i].k = "wait" /\ stack[i].quit /\ ops[stack[i].op].fin
        /\ stack[j].k = "wait" /\ ~stack[j].quit /\ ~ops[stack[j].op].fin

====
